---- MODULE Spec2Model ----
(***************************************************************************)
(* A model of the AST passes of src/python/modify_nodes.py (RemoveDeadCode, *)
(* CallOnlyChecker, InlineFunctions, CleanupAST) and of the usage analyzer  *)
(* of src/python/visit_nodes.py (UnusedVariables).                          *)
(*                                                                         *)
(* AST nodes are records tagged by "kind".  The tree passes that only       *)
(* rebuild statement lists (RemoveDeadCode, CleanupAST) are modelled on     *)
(* value trees; InlineFunctions, which mutates shared node objects, is      *)
(* modelled on a heap of node objects addressed by identity.               *)
(***************************************************************************)
EXTENDS Integers, Sequences, FiniteSets, TLC

VARIABLES
  pc,                \* position of the driver
  tree,              \* the Module handed to the pass under study
  result,            \* the Module the pass returned
  heap,              \* the node objects of the tree being inlined (1 is the Module)
  inlineable_cache,  \* CallOnlyChecker.__inlineable_cache__
  function_cache,    \* CallOnlyChecker.__function_cache__
  fault,             \* the exception that ended the pass, "" when none
  variable_def,      \* UnusedVariables.variable_def
  variable_used,     \* UnusedVariables.variable_used
  stack,             \* UnusedVariables.stack
  function_name,     \* UnusedVariables.function_name
  stdout,            \* the diagnostics written to sys.stdout, in order
  lineno,            \* line of the statement visited last
  last,              \* observation: the node visited last
  refs,              \* observation: the register_usage calls of that node
  touched            \* observation: per frame, the names referenced so far

passVars == <<pc, tree, result>>
inlineVars == <<heap, inlineable_cache, function_cache, fault>>
usageVars ==
  <<variable_def, variable_used, stack, function_name, stdout, lineno,
    last, refs, touched>>
vars ==
  <<pc, tree, result, heap, inlineable_cache, function_cache, fault,
    variable_def, variable_used, stack, function_name, stdout, lineno,
    last, refs, touched>>

----------------------------------------------------------------------------
(* AST node constructors (value trees)                                     *)

Module(body) == [kind |-> "Module", body |-> body]
FunctionDef(name, args, body) ==
  [kind |-> "FunctionDef", name |-> name, args |-> args, body |-> body]
If(test, body, orelse) ==
  [kind |-> "If", test |-> test, body |-> body, orelse |-> orelse]
Assign(target, value) == [kind |-> "Assign", target |-> target, value |-> value]
Expr(value) == [kind |-> "Expr", value |-> value]
Call(func, args) == [kind |-> "Call", func |-> func, args |-> args]
Name(id) == [kind |-> "Name", id |-> id]
Constant(value) == [kind |-> "Constant", value |-> value]
\* a string literal parsed as ast.Str (interpreters before 3.8); where the
\* parser yields ast.Constant for it, a function with a docstring fails the
\* type test of line 96 and is simply not inlinable
Str == [kind |-> "Str"]
BinOp(left, right) == [kind |-> "BinOp", left |-> left, right |-> right]
\* a Python list sitting in a field that should hold one node
PyList(elts) == [kind |-> "list", elts |-> elts]

\* Python truthiness of the literal held by a Constant node; literals are
\* written as their source text
Truthy(value) == value \notin {"False", "0", "None", "''"}

\* what a NodeTransformer visit method may return
RetNone == [tag |-> "None"]
RetNode(node) == [tag |-> "node", node |-> node]
RetList(nodes) == [tag |-> "list", nodes |-> nodes]

\* NodeTransformer.generic_visit on a list field: a None result drops the
\* child, a list result is spliced in, a node result is appended
Splice(ret) ==
  CASE ret.tag = "None" -> <<>>
    [] ret.tag = "list" -> ret.nodes
    [] OTHER -> <<ret.node>>

\* names that may be defined as functions, and the caches before analysis
\* (both are defaultdicts: an unknown name is not inlinable, with no record)
FuncNames == {"f", "k", "main", "g", "h"}
NoRecord == [args |-> <<>>, items |-> <<>>, pos |-> 0]
InlineIdle ==
  /\ heap = <<>>
  /\ inlineable_cache = [n \in FuncNames |-> FALSE]
  /\ function_cache = [n \in FuncNames |-> NoRecord]
  /\ fault = ""

\* UnusedVariables.__init__, and nothing observed yet
ScopeDefs == [global |-> <<>>, nonlocal |-> <<>>, local |-> <<>>]
NoNode ==
  [kind |-> "none", name |-> "", target |-> "", value |-> Constant("0"),
   locals |-> <<>>, seen |-> {}, out |-> <<>>]
UsageIdle ==
  /\ variable_def = [f \in {"global"} |-> ScopeDefs]
  /\ variable_used = [f \in {"global"} |-> {}]
  /\ stack = <<"global">>
  /\ function_name = "global"
  /\ stdout = <<>>
  /\ lineno = 0
  /\ last = NoNode
  /\ refs = <<>>
  /\ touched = <<{}>>

----------------------------------------------------------------------------
(* RemoveDeadCode                                                          *)

RECURSIVE RDC_visit(_), RDC_visit_list(_)

\* generic_visit: every list field is rebuilt from the visits of its
\* elements; leaves have no child that a visit changes
RDC_generic_visit(node) ==
  CASE node.kind = "Module" ->
         [node EXCEPT !.body = RDC_visit_list(node.body)]
    [] node.kind = "FunctionDef" ->
         [node EXCEPT !.body = RDC_visit_list(node.body)]
    [] node.kind = "If" ->
         [node EXCEPT !.body = RDC_visit_list(node.body),
                      !.orelse = RDC_visit_list(node.orelse)]
    [] OTHER -> node

\* a plausible slip: the truthy and falsy branches swapped
RDC_visit_If_swapped(node) ==
  LET n == RDC_generic_visit(node) IN
  IF n.test.kind \in {"Constant", "NameConstant"}
  THEN LET new_node == IF Truthy(n.test.value) THEN n.orelse ELSE n.body IN
       IF new_node = <<>> THEN RetNone ELSE RetList(new_node)
  ELSE RetNode(n)

RDC_visit_If(node) ==
  LET n == RDC_generic_visit(node) IN
  IF n.test.kind \in {"Constant", "NameConstant"}
  THEN LET new_node == IF Truthy(n.test.value) THEN n.body ELSE n.orelse IN
       IF new_node = <<>> THEN RetNone ELSE RetList(new_node)
  ELSE RetNode(n)

RDC_visit(node) ==
  IF node.kind = "If" THEN RDC_visit_If(node)
  ELSE RetNode(RDC_generic_visit(node))

RDC_visit_list(nodes) ==
  IF nodes = <<>> THEN <<>>
  ELSE Splice(RDC_visit(Head(nodes))) \o RDC_visit_list(Tail(nodes))

\* RemoveDeadCode.optimize (fix_missing_locations only fills line numbers)
RDC_optimize(node) == RDC_visit(node).node

----------------------------------------------------------------------------
(* Inputs of the pruning pass: every Module of at most MaxPruneNodes       *)
(* statements built from two distinguishable leaves and If nodes.          *)

MaxPruneNodes == 4

PruneLeaves == {Assign("a", Constant("1")), Assign("b", Constant("2"))}
PruneTests == {Constant("True"), Constant("False"), Constant("0"), Name("c")}

\* a statement with no children yet: a leaf or an If with empty branches
PruneSeeds == PruneLeaves \cup { If(t, <<>>, <<>>) : t \in PruneTests }

InsertAt(nodes, i, s) == SubSeq(nodes, 1, i) \o <<s>> \o SubSeq(nodes, i + 1, Len(nodes))

RECURSIVE PruneSize(_), PruneGrow(_)
\* number of statement nodes in a statement list
PruneSize(nodes) ==
  IF nodes = <<>> THEN 0
  ELSE LET s == Head(nodes) IN
       1 + (IF s.kind = "If" THEN PruneSize(s.body) + PruneSize(s.orelse) ELSE 0)
         + PruneSize(Tail(nodes))
\* every statement list that has one more statement than nodes, at any
\* position of any list of the tree
PruneGrow(nodes) ==
  { InsertAt(nodes, i, s) : i \in 0..Len(nodes), s \in PruneSeeds } \cup
  UNION { IF nodes[i].kind # "If" THEN {}
          ELSE { [nodes EXCEPT ![i].body = b] : b \in PruneGrow(nodes[i].body) } \cup
               { [nodes EXCEPT ![i].orelse = o] : o \in PruneGrow(nodes[i].orelse) }
          : i \in 1..Len(nodes) }

InitPrune ==
  /\ pc = "parsing"
  /\ tree = Module(<<>>)
  /\ result = Module(<<>>)
  /\ InlineIdle
  /\ UsageIdle

\* the external parser hands over any Module of the bounded family: it is
\* built one statement at a time
ParsePrune ==
  /\ pc = "parsing"
  /\ PruneSize(tree.body) < MaxPruneNodes
  /\ \E b \in PruneGrow(tree.body) : tree' = Module(b)
  /\ UNCHANGED <<pc, result>>
  /\ UNCHANGED inlineVars
  /\ UNCHANGED usageVars

\* main(): pruned_tree = branch_transformer.optimize(tree)
Prune ==
  /\ pc = "parsing"
  /\ result' = RDC_optimize(tree)
  /\ pc' = "pruned"
  /\ UNCHANGED tree
  /\ UNCHANGED inlineVars
  /\ UNCHANGED usageVars

NextPrune == ParsePrune \/ Prune
SpecPrune == InitPrune /\ [][NextPrune]_vars

----------------------------------------------------------------------------
(* C1 *)

RECURSIVE PrunedStmts(_)
\* the statements that stand for a statement list after pruning, as the
\* claim words it: a constant-test If gives way to the pruned statements of
\* its selected branch, any other If stays with pruned branches, anything
\* else stays
PrunedStmts(nodes) ==
  IF nodes = <<>> THEN <<>>
  ELSE LET s == Head(nodes) IN
       (IF s.kind # "If" THEN <<s>>
        ELSE IF s.test.kind = "Constant"
             THEN (IF Truthy(s.test.value) THEN PrunedStmts(s.body)
                   ELSE PrunedStmts(s.orelse))
             ELSE <<If(s.test, PrunedStmts(s.body), PrunedStmts(s.orelse))>>)
       \o PrunedStmts(Tail(nodes))

RECURSIVE HasConstantIf(_)
HasConstantIf(nodes) ==
  \E i \in 1..Len(nodes) :
     /\ nodes[i].kind = "If"
     /\ \/ nodes[i].test.kind = "Constant"
        \/ HasConstantIf(nodes[i].body)
        \/ HasConstantIf(nodes[i].orelse)

\* C1: after prune, every constant-test If has been replaced, at its
\* position, by the pruned statements of its selected branch (nothing when
\* that branch is empty); non-constant Ifs and all other statements are kept.
C1_PruneSplices ==
  pc = "pruned" =>
    /\ result.kind = "Module"
    /\ result.body = PrunedStmts(tree.body)
    /\ ~HasConstantIf(result.body)

\* a truthy If whose body holds a nested falsy If that collapses to its
\* orelse, next to a sibling: the splice keeps order and position
C1_Witness ==
  /\ pc = "pruned"
  /\ Len(tree.body) = 1
  /\ tree.body[1].kind = "If"
  /\ tree.body[1].test.kind = "Constant"
  /\ Truthy(tree.body[1].test.value)
  /\ Len(tree.body[1].body) = 2
  /\ tree.body[1].body[1].kind = "If"
  /\ tree.body[1].body[1].test.kind = "Constant"
  /\ ~Truthy(tree.body[1].body[1].test.value)
  /\ Len(tree.body[1].body[1].orelse) = 1
  /\ tree.body[1].body[2].kind = "Assign"
  /\ tree.body[1].body[1].orelse[1] # tree.body[1].body[2]
  /\ result.body = tree.body[1].body[1].orelse \o <<tree.body[1].body[2]>>

----------------------------------------------------------------------------
(* CleanupAST                                                              *)

RECURSIVE ExprPerElement(_, _)
\* the loop of cleanBody over a list of more (or fewer) than one element:
\* for stmt in child_node.value: new_body.append(ast.Expr(value=child_node.value[0]))
ExprPerElement(value, rest) ==
  IF rest = <<>> THEN <<>>
  ELSE <<Expr(value[1])>> \o ExprPerElement(value, Tail(rest))

RECURSIVE cleanBody(_)
cleanBody(node_body) ==
  IF node_body = <<>> THEN <<>>
  ELSE LET child_node == Head(node_body) IN
       (IF child_node.kind = "Expr" /\ child_node.value.kind = "list"
        THEN (IF Len(child_node.value.elts) = 1
              THEN <<Expr(child_node.value.elts[1])>>
              ELSE ExprPerElement(child_node.value.elts, child_node.value.elts))
        ELSE <<child_node>>)
       \o cleanBody(Tail(node_body))

RECURSIVE Clean_visit(_)
\* generic_visit of every statement of a list field; CleanupAST's visit
\* methods all return the node itself, so the list keeps its length
Clean_visit_list(nodes) == [i \in 1..Len(nodes) |-> Clean_visit(nodes[i])]

\* generic_visit: expression children are visited and left as they are
Clean_generic_visit(node) ==
  CASE node.kind \in {"Module", "FunctionDef"} ->
         [node EXCEPT !.body = Clean_visit_list(node.body)]
    [] node.kind = "If" ->
         [node EXCEPT !.body = Clean_visit_list(node.body),
                      !.orelse = Clean_visit_list(node.orelse)]
    [] OTHER -> node

Clean_visit_Module(node) ==
  LET n == Clean_generic_visit(node) IN [n EXCEPT !.body = cleanBody(n.body)]

Clean_visit_FunctionDef(node) ==
  LET n == Clean_generic_visit(node) IN [n EXCEPT !.body = cleanBody(n.body)]

\* a plausible slip: the orelse branch is not cleaned
Clean_visit_If_bodyOnly(node) ==
  LET n == Clean_generic_visit(node) IN [n EXCEPT !.body = cleanBody(n.body)]

Clean_visit_If(node) ==
  LET n == Clean_generic_visit(node) IN
  [n EXCEPT !.body = cleanBody(n.body), !.orelse = cleanBody(n.orelse)]

Clean_visit(node) ==
  CASE node.kind = "Module" -> Clean_visit_Module(node)
    [] node.kind = "FunctionDef" -> Clean_visit_FunctionDef(node)
    [] node.kind = "If" -> Clean_visit_If(node)
    [] OTHER -> Clean_generic_visit(node)

\* CleanupAST.cleanup
cleanup(t) == Clean_visit(t)

----------------------------------------------------------------------------
(* Inputs of the normalizing pass: every Module of at most MaxNormNodes     *)
(* statements built from Assign, ExprStmt (holding one expression or a      *)
(* sequence of up to MaxSeq expressions), If and FunctionDef.               *)

MaxNormNodes == 4
MaxSeq == 2

\* the i-th expression of a sequence; the elements differ pairwise
SeqElt(i) == Call("g", <<Constant(ToString(i))>>)
SeqOf(n) == [i \in 1..n |-> SeqElt(i)]

NormSeeds ==
  { Assign("a", Constant("1")), Expr(Call("h", <<>>)),
    If(Name("c"), <<>>, <<>>), FunctionDef("f", <<>>, <<>>) } \cup
  { Expr(PyList(SeqOf(n))) : n \in 0..MaxSeq }

RECURSIVE NormSize(_), NormGrow(_)
NormSize(nodes) ==
  IF nodes = <<>> THEN 0
  ELSE LET s == Head(nodes) IN
       1 + (CASE s.kind = "If" -> NormSize(s.body) + NormSize(s.orelse)
              [] s.kind = "FunctionDef" -> NormSize(s.body)
              [] OTHER -> 0)
         + NormSize(Tail(nodes))
NormGrow(nodes) ==
  { InsertAt(nodes, i, s) : i \in 0..Len(nodes), s \in NormSeeds } \cup
  UNION { CASE nodes[i].kind = "If" ->
                 { [nodes EXCEPT ![i].body = b] : b \in NormGrow(nodes[i].body) } \cup
                 { [nodes EXCEPT ![i].orelse = o] : o \in NormGrow(nodes[i].orelse) }
            [] nodes[i].kind = "FunctionDef" ->
                 { [nodes EXCEPT ![i].body = b] : b \in NormGrow(nodes[i].body) }
            [] OTHER -> {}
          : i \in 1..Len(nodes) }

InitNorm ==
  /\ pc = "inlined"
  /\ tree = Module(<<>>)
  /\ result = Module(<<>>)
  /\ InlineIdle
  /\ UsageIdle

\* the tree that reaches CleanupAST: any Module of the bounded family
InlinedTree ==
  /\ pc = "inlined"
  /\ NormSize(tree.body) < MaxNormNodes
  /\ \E b \in NormGrow(tree.body) : tree' = Module(b)
  /\ UNCHANGED <<pc, result>>
  /\ UNCHANGED inlineVars
  /\ UNCHANGED usageVars

\* InlineFunctions.optimize: inlined_tree = CleanupAST().cleanup(inlined_tree)
Normalize ==
  /\ pc = "inlined"
  /\ result' = cleanup(tree)
  /\ pc' = "normalized"
  /\ UNCHANGED tree
  /\ UNCHANGED inlineVars
  /\ UNCHANGED usageVars

NextNorm == InlinedTree \/ Normalize
SpecNorm == InitNorm /\ [][NextNorm]_vars

----------------------------------------------------------------------------
(* C3, C4 *)

RECURSIVE OneExprPerElement(_)
\* the normal form the claim describes: each sequence-valued ExprStmt gives
\* way to one ExprStmt per element, the i-th holding the i-th element
OneExprPerElement(nodes) ==
  IF nodes = <<>> THEN <<>>
  ELSE LET s == Head(nodes) IN
       (CASE s.kind = "Expr" /\ s.value.kind = "list" ->
               [i \in 1..Len(s.value.elts) |-> Expr(s.value.elts[i])]
          [] s.kind = "If" ->
               <<If(s.test, OneExprPerElement(s.body), OneExprPerElement(s.orelse))>>
          [] s.kind = "FunctionDef" ->
               <<FunctionDef(s.name, s.args, OneExprPerElement(s.body))>>
          [] OTHER -> <<s>>)
       \o OneExprPerElement(Tail(nodes))

\* C3: normalize replaces an ExprStmt holding [e1, ..., en] by n ExprStmts
\* holding e1, ..., en in that order, at its position, and keeps the other
\* statements in order.
C3_OneStatementPerElement ==
  pc = "normalized" => result.body = OneExprPerElement(tree.body)

RECURSIVE HasSeqExpr(_)
\* some ExprStmt of the statement lists, at any depth, holds a sequence
HasSeqExpr(nodes) ==
  \E i \in 1..Len(nodes) :
     \/ nodes[i].kind = "Expr" /\ nodes[i].value.kind = "list"
     \/ nodes[i].kind = "If" /\ (HasSeqExpr(nodes[i].body) \/ HasSeqExpr(nodes[i].orelse))
     \/ nodes[i].kind = "FunctionDef" /\ HasSeqExpr(nodes[i].body)

\* C4: after normalize no ExprStmt anywhere in the tree (Module body,
\* FunctionDef bodies, both branches of every If, at any depth) holds a
\* sequence as its value.
C4_NoSequenceValue ==
  pc = "normalized" => ~HasSeqExpr(result.body)

\* a sequence-valued ExprStmt in the orelse of an If inside a FunctionDef,
\* and one in the Module body, have been normalized
C4_Witness ==
  /\ pc = "normalized"
  /\ \E i, j \in 1..Len(tree.body) :
        /\ tree.body[i].kind = "FunctionDef"
        /\ Len(tree.body[i].body) = 1
        /\ tree.body[i].body[1].kind = "If"
        /\ HasSeqExpr(tree.body[i].body[1].orelse)
        /\ tree.body[j].kind = "Expr"
        /\ tree.body[j].value.kind = "list"
        /\ Len(tree.body[j].value.elts) = 2
  /\ Len(result.body) = 3

----------------------------------------------------------------------------
(* Node objects.  ast.parse returns a graph of objects, and InlineFunctions *)
(* rebinds fields of objects that other objects also point to, so this pass *)
(* is modelled on a heap: heap[id] is the object and its fields hold ids.   *)
(* A field that should hold one node is a reference: one id, or, once a     *)
(* visit has returned a list, the ids of that list.                         *)

One(id) == [list |-> FALSE, ids |-> <<id>>]
Many(ids) == [list |-> TRUE, ids |-> ids]

RECURSIVE Load(_, _), LoadList(_, _)
LoadList(h, nodes) ==
  IF nodes = <<>> THEN [heap |-> h, ids |-> <<>>]
  ELSE LET a == Load(h, Head(nodes))
           r == LoadList(a.heap, Tail(nodes))
       IN [heap |-> r.heap, ids |-> <<a.id>> \o r.ids]

\* the objects of a parsed tree, a parent allocated before its children;
\* every Call carries the (positive) line the parser gave it
Load(h, node) ==
  LET id == Len(h) + 1
      h0 == Append(h, node)
  IN CASE node.kind = "Module" ->
            LET b == LoadList(h0, node.body) IN
            [heap |-> [b.heap EXCEPT ![id] = [kind |-> "Module", body |-> b.ids]],
             id |-> id]
       [] node.kind = "FunctionDef" ->
            LET b == LoadList(h0, node.body) IN
            [heap |-> [b.heap EXCEPT ![id] =
                         [kind |-> "FunctionDef", name |-> node.name,
                          args |-> node.args, body |-> b.ids]],
             id |-> id]
       [] node.kind = "If" ->
            LET t == Load(h0, node.test)
                b == LoadList(t.heap, node.body)
                o == LoadList(b.heap, node.orelse)
            IN [heap |-> [o.heap EXCEPT ![id] =
                            [kind |-> "If", test |-> One(t.id),
                             body |-> b.ids, orelse |-> o.ids]],
                id |-> id]
       [] node.kind = "Assign" ->
            LET v == Load(h0, node.value) IN
            [heap |-> [v.heap EXCEPT ![id] =
                         [kind |-> "Assign", target |-> node.target,
                          value |-> One(v.id)]],
             id |-> id]
       [] node.kind = "Expr" ->
            LET v == Load(h0, node.value) IN
            [heap |-> [v.heap EXCEPT ![id] = [kind |-> "Expr", value |-> One(v.id)]],
             id |-> id]
       [] node.kind = "Call" ->
            LET a == LoadList(h0, node.args) IN
            [heap |-> [a.heap EXCEPT ![id] =
                         [kind |-> "Call", func |-> node.func,
                          args |-> a.ids, lineno |-> 1]],
             id |-> id]
       [] OTHER -> [heap |-> h0, id |-> id]

RECURSIVE Mat(_, _)
MatList(h, ids) == [i \in 1..Len(ids) |-> Mat(h, ids[i])]
MatRef(h, ref) ==
  IF ref.list THEN PyList(MatList(h, ref.ids)) ELSE Mat(h, ref.ids[1])
\* the tree one reads off the objects from node id down (line numbers left out)
Mat(h, id) ==
  LET n == h[id] IN
  CASE n.kind = "Module" -> Module(MatList(h, n.body))
    [] n.kind = "FunctionDef" -> FunctionDef(n.name, n.args, MatList(h, n.body))
    [] n.kind = "If" -> If(MatRef(h, n.test), MatList(h, n.body), MatList(h, n.orelse))
    [] n.kind = "Assign" -> Assign(n.target, MatRef(h, n.value))
    [] n.kind = "Expr" -> Expr(MatRef(h, n.value))
    [] n.kind = "Call" -> Call(n.func, MatList(h, n.args))
    [] OTHER -> n

----------------------------------------------------------------------------
(* CallOnlyChecker.  cs = [inlineable, cache, fault].  A cache record keeps *)
(* the parameter names and the map object over the call statements: the     *)
(* statements it ranges over (items) and how many it has yielded (pos).     *)
(* get_cached_function copies the dict, not the map object, so every call   *)
(* site draws from the same iterator.                                       *)

Chk_visit_FunctionDef(cs, h, id) ==
  LET node == h[id]
      allowed(s) == /\ h[s].kind = "Expr"
                    /\ ~h[s].value.list
                    /\ h[h[s].value.ids[1]].kind \in {"Str", "Call"}
  IN IF \E i \in 1..Len(node.body) : ~allowed(node.body[i])
     THEN [cs EXCEPT !.inlineable[node.name] = FALSE]
     ELSE IF node.body = <<>>
     THEN \* node.body[0] raises
          [cs EXCEPT !.inlineable[node.name] = TRUE,
                     !.cache[node.name] = [args |-> node.args, items |-> <<>>, pos |-> 0],
                     !.fault = "IndexError"]
     ELSE LET call_list == IF h[h[node.body[1]].value.ids[1]].kind = "Str"
                           THEN Tail(node.body) ELSE node.body
          IN [cs EXCEPT !.inlineable[node.name] = TRUE,
                        !.cache[node.name] =
                           [args |-> node.args, items |-> call_list, pos |-> 0]]

RECURSIVE Chk_visit_list(_, _, _)
\* NodeVisitor.generic_visit over statements: a FunctionDef is handed to
\* visit_FunctionDef (which does not descend), the branches of an If are
\* walked, no other statement holds a FunctionDef
Chk_visit_list(cs, h, ids) ==
  IF ids = <<>> \/ cs.fault # "" THEN cs
  ELSE LET n == h[Head(ids)]
           c1 == CASE n.kind = "FunctionDef" -> Chk_visit_FunctionDef(cs, h, Head(ids))
                   [] n.kind = "If" ->
                        Chk_visit_list(Chk_visit_list(cs, h, n.body), h, n.orelse)
                   [] OTHER -> cs
       IN Chk_visit_list(c1, h, Tail(ids))

----------------------------------------------------------------------------
(* InlineFunctions.  st = [heap, inlineable, cache, fault]: the node        *)
(* objects, the checker's two caches, and the exception raised, if any.     *)

RECURSIVE Inl_visit(_, _), Inl_visit_list(_, _)

\* new_values.extend(value) / new_values.append(value)
Inl_extend(front, r) == [st |-> r.st, ids |-> front \o r.ids]
Inl_visit_rest(a, rest) == Inl_extend(a.ret.ids, Inl_visit_list(a.st, rest))

\* generic_visit on a list field: the results are spliced in order
Inl_visit_list(st, ids) ==
  IF ids = <<>> \/ st.fault # "" THEN [st |-> st, ids |-> <<>>]
  ELSE Inl_visit_rest(Inl_visit(st, Head(ids)), Tail(ids))

Inl_list_as_ref(r) == [st |-> r.st, ref |-> Many(r.ids)]
Inl_ret_as_ref(a) == [st |-> a.st, ref |-> a.ret]

\* generic_visit on a field holding one node (or already a list)
Inl_visit_field(st, ref) ==
  IF ref.list THEN Inl_list_as_ref(Inl_visit_list(st, ref.ids))
  ELSE Inl_ret_as_ref(Inl_visit(st, ref.ids[1]))

\* old_value[:] = new_values and setattr(node, field, new_node); an
\* exception in a child leaves the field as it was
Inl_set_body(r, id) ==
  IF r.st.fault # "" THEN r.st ELSE [r.st EXCEPT !.heap[id].body = r.ids]
Inl_set_orelse(r, id) ==
  IF r.st.fault # "" THEN r.st ELSE [r.st EXCEPT !.heap[id].orelse = r.ids]
Inl_set_args(r, id) ==
  IF r.st.fault # "" THEN r.st ELSE [r.st EXCEPT !.heap[id].args = r.ids]
Inl_set_test(v, id) ==
  IF v.st.fault # "" THEN v.st ELSE [v.st EXCEPT !.heap[id].test = v.ref]
Inl_set_value(v, id) ==
  IF v.st.fault # "" THEN v.st ELSE [v.st EXCEPT !.heap[id].value = v.ref]

Inl_visit_body(st, id) == Inl_set_body(Inl_visit_list(st, st.heap[id].body), id)
Inl_visit_orelse(st, id) == Inl_set_orelse(Inl_visit_list(st, st.heap[id].orelse), id)
Inl_visit_args(st, id) == Inl_set_args(Inl_visit_list(st, st.heap[id].args), id)
Inl_visit_test(st, id) == Inl_set_test(Inl_visit_field(st, st.heap[id].test), id)
Inl_visit_value(st, id) == Inl_set_value(Inl_visit_field(st, st.heap[id].value), id)

\* generic_visit: the fields of the node in declaration order
Inl_generic_visit(st, id) ==
  CASE st.heap[id].kind \in {"Module", "FunctionDef"} -> Inl_visit_body(st, id)
    [] st.heap[id].kind = "If" ->
         Inl_visit_orelse(Inl_visit_body(Inl_visit_test(st, id), id), id)
    [] st.heap[id].kind \in {"Assign", "Expr"} -> Inl_visit_value(st, id)
    [] st.heap[id].kind = "Call" -> Inl_visit_args(st, id)
    [] OTHER -> st

\* new_args of one cached call: a Name found in the table gives way to the
\* caller's argument
Inl_new_args(h, args, table) ==
  [i \in 1..Len(args) |->
     IF h[args[i]].kind = "Name" /\ h[args[i]].id \in DOMAIN table
     THEN table[h[args[i]].id] ELSE args[i]]

\* call.args = new_args, on the cached object itself
Inl_rebind(st, call, table) ==
  [st EXCEPT !.heap[call].args = Inl_new_args(st.heap, st.heap[call].args, table)]

RECURSIVE Inl_substitute(_, _, _)
Inl_append(call, r) ==
  [st |-> r.st, nodes |-> <<call>> \o r.nodes, taken |-> 1 + r.taken]

\* for call in replacement_code['body']: the map object yields x.value of
\* each statement it has not yielded yet
Inl_substitute(st, items, table) ==
  IF items = <<>> THEN [st |-> st, nodes |-> <<>>, taken |-> 0]
  ELSE IF \/ st.heap[Head(items)].value.list
          \/ st.heap[st.heap[Head(items)].value.ids[1]].kind # "Call"
  THEN \* call.args on a list or on a docstring
       [st |-> [st EXCEPT !.fault = "AttributeError"], nodes |-> <<>>, taken |-> 1]
  ELSE Inl_append(st.heap[Head(items)].value.ids[1],
                  Inl_substitute(Inl_rebind(st, st.heap[Head(items)].value.ids[1], table),
                                 Tail(items), table))

\* for node in replacement_nodes: node.lineno = 0
Inl_reset_lineno(h, nodes) ==
  [i \in 1..Len(h) |->
     IF \E j \in 1..Len(nodes) : nodes[j] = i THEN [h[i] EXCEPT !.lineno = 0] ELSE h[i]]

\* replacement_table: the i-th argument of the call site under the name of
\* the i-th parameter
Inl_replacement_table(args, params) ==
  [p \in {params[i] : i \in 1..Len(args)} |->
     args[CHOOSE i \in 1..Len(args) :
            /\ params[i] = p
            /\ \A j \in 1..Len(args) : params[j] = p => j <= i]]

\* the return of visit_Call once the cached calls are rewritten; the shared
\* map object stays where this call site left it
Inl_return(r, id, func, pos) ==
  IF r.st.fault # ""
  THEN [st |-> [r.st EXCEPT !.cache[func].pos = pos + r.taken], ret |-> One(id)]
  ELSE IF Len(r.nodes) = 1
  THEN [st |-> [r.st EXCEPT !.cache[func].pos = pos + r.taken], ret |-> One(r.nodes[1])]
  ELSE [st |-> [r.st EXCEPT !.cache[func].pos = pos + r.taken,
                            !.heap = Inl_reset_lineno(r.st.heap, r.nodes)],
        ret |-> Many(r.nodes)]

\* self.checker.get_cached_function(node.func.id) and the two loops
Inl_replace(st, id, replacement_code) ==
  IF Len(st.heap[id].args) > Len(replacement_code.args)
  THEN \* replacement_args.args[index] raises
       [st |-> [st EXCEPT !.fault = "IndexError"], ret |-> One(id)]
  ELSE Inl_return(
         Inl_substitute(st,
                        SubSeq(replacement_code.items, replacement_code.pos + 1,
                               Len(replacement_code.items)),
                        Inl_replacement_table(st.heap[id].args, replacement_code.args)),
         id, st.heap[id].func, replacement_code.pos)

\* visit_Call after super().generic_visit(node)
Inl_after_generic_visit(st, id) ==
  IF st.fault # "" \/ ~st.inlineable[st.heap[id].func]
  THEN [st |-> st, ret |-> One(id)]
  ELSE Inl_replace(st, id, st.cache[st.heap[id].func])

Inl_visit_Call(st, id) == Inl_after_generic_visit(Inl_generic_visit(st, id), id)

Inl_node(st, id) == [st |-> st, ret |-> One(id)]

Inl_visit(st, id) ==
  IF st.heap[id].kind = "Call" THEN Inl_visit_Call(st, id)
  ELSE Inl_node(Inl_generic_visit(st, id), id)

----------------------------------------------------------------------------
(* Inputs of the inlining pass: Modules of at most MaxInlineNodes           *)
(* statements: definitions of f (one call, two calls, a docstring, not      *)
(* inlinable) and of k (which calls f), call sites of f and k with up to    *)
(* MaxArgs arguments, an If and a function main that hold more statements.  *)
(* No definition is recursive.                                              *)

MaxInlineNodes == 3
MaxArgs == 2

InlineAtoms == {Constant("5"), Name("a")}
InlineArgs == UNION { [1..n -> InlineAtoms] : n \in 0..MaxArgs }

InlineDefs ==
  { FunctionDef("f", <<"x">>, <<Expr(Call("g", <<Name("x")>>))>>),
    FunctionDef("f", <<"x">>, <<Expr(Call("g", <<Name("x")>>)),
                                Expr(Call("h", <<Name("z"), Name("x")>>))>>),
    FunctionDef("f", <<"x">>, <<Expr(Str), Expr(Call("g", <<Name("x")>>))>>),
    FunctionDef("f", <<"x">>, <<Assign("t", Constant("1"))>>),
    FunctionDef("k", <<"y">>, <<Expr(Call("f", <<Name("y")>>))>>) }

InlineSeeds ==
  InlineDefs \cup
  { Expr(Call("f", a)) : a \in InlineArgs } \cup
  { Expr(Call("k", <<Constant("6")>>)),
    Expr(Call("g", <<Call("f", <<Constant("6")>>)>>)),
    Assign("v", Call("f", <<Constant("6")>>)),
    If(Name("c"), <<>>, <<>>),
    FunctionDef("main", <<>>, <<>>) }

RECURSIVE InlineSize(_), InlineGrow(_)
InlineSize(nodes) ==
  IF nodes = <<>> THEN 0
  ELSE LET s == Head(nodes) IN
       1 + (CASE s.kind = "If" -> InlineSize(s.body) + InlineSize(s.orelse)
              [] s.kind = "FunctionDef" /\ s.name = "main" -> InlineSize(s.body)
              [] OTHER -> 0)
         + InlineSize(Tail(nodes))
InlineGrow(nodes) ==
  { InsertAt(nodes, i, s) : i \in 0..Len(nodes), s \in InlineSeeds } \cup
  UNION { CASE nodes[i].kind = "If" ->
                 { [nodes EXCEPT ![i].body = b] : b \in InlineGrow(nodes[i].body) } \cup
                 { [nodes EXCEPT ![i].orelse = o] : o \in InlineGrow(nodes[i].orelse) }
            [] nodes[i].kind = "FunctionDef" /\ nodes[i].name = "main" ->
                 { [nodes EXCEPT ![i].body = b] : b \in InlineGrow(nodes[i].body) }
            [] OTHER -> {}
          : i \in 1..Len(nodes) }

InitInline ==
  /\ pc = "parsing"
  /\ tree = Module(<<>>)
  /\ result = Module(<<>>)
  /\ InlineIdle
  /\ UsageIdle

\* the external parser hands over any Module of the bounded family
ParseInline ==
  /\ pc = "parsing"
  /\ InlineSize(tree.body) < MaxInlineNodes
  /\ \E b \in InlineGrow(tree.body) : tree' = Module(b)
  /\ UNCHANGED <<pc, result>>
  /\ UNCHANGED inlineVars
  /\ UNCHANGED usageVars

\* InlineFunctions.optimize: self.checker.visit(tree)
Analyze ==
  /\ pc = "parsing"
  /\ LET h == Load(<<>>, tree).heap
         cs == Chk_visit_list([inlineable |-> inlineable_cache,
                               cache |-> function_cache, fault |-> ""],
                              h, h[1].body)
     IN /\ heap' = h
        /\ inlineable_cache' = cs.inlineable
        /\ function_cache' = cs.cache
        /\ fault' = cs.fault
        /\ pc' = IF cs.fault = "" THEN "analyzed" ELSE "analysis_failed"
  /\ UNCHANGED <<tree, result>>
  /\ UNCHANGED usageVars

\* InlineFunctions.optimize: inlined_tree = self.visit(tree)
Inline ==
  /\ pc = "analyzed"
  /\ LET r == Inl_visit([heap |-> heap, inlineable |-> inlineable_cache,
                         cache |-> function_cache, fault |-> ""], 1)
     IN /\ heap' = r.st.heap
        /\ function_cache' = r.st.cache
        /\ fault' = r.st.fault
        /\ pc' = IF r.st.fault = "" THEN "inlined" ELSE "inline_failed"
  /\ UNCHANGED <<tree, result, inlineable_cache>>
  /\ UNCHANGED usageVars

\* InlineFunctions.optimize: inlined_tree = CleanupAST().cleanup(inlined_tree)
Cleanup ==
  /\ pc = "inlined"
  /\ result' = cleanup(Mat(heap, 1))
  /\ pc' = "cleaned"
  /\ UNCHANGED tree
  /\ UNCHANGED inlineVars
  /\ UNCHANGED usageVars

NextInline == ParseInline \/ Analyze \/ Inline \/ Cleanup
SpecInline == InitInline /\ [][NextInline]_vars

----------------------------------------------------------------------------
(* C2, C8, C9 *)

\* the node objects as the parser made them, before any pass touched them
Heap0 == Load(<<>>, tree).heap

\* the call statements the analyzer cached for fn, as they were when cached
CachedCalls(fn) ==
  [i \in 1..Len(function_cache[fn].items) |->
     Mat(Heap0, Heap0[function_cache[fn].items[i]].value.ids[1])]

\* a cached call with every Name argument that is a parameter replaced by
\* the positional argument of the call site
Substituted(call, params, args) ==
  Call(call.func,
       [j \in 1..Len(call.args) |->
          IF /\ call.args[j].kind = "Name"
             /\ \E q \in 1..Len(params) : params[q] = call.args[j].id
          THEN args[CHOOSE q \in 1..Len(params) : params[q] = call.args[j].id]
          ELSE call.args[j]])

\* what a call site fn(args) becomes: the one rewritten call, or the list
InlinedValue(fn, args) ==
  LET calls == [i \in 1..Len(CachedCalls(fn)) |->
                  Substituted(CachedCalls(fn)[i], function_cache[fn].args, args)]
  IN IF Len(calls) = 1 THEN calls[1] ELSE PyList(calls)

\* statement i of the Module is a call statement of an inlinable function
\* with plain arguments
CallSite(i) ==
  /\ tree.body[i].kind = "Expr"
  /\ tree.body[i].value.kind = "Call"
  /\ inlineable_cache[tree.body[i].value.func]
  /\ \A j \in 1..Len(tree.body[i].value.args) :
        tree.body[i].value.args[j].kind \in {"Name", "Constant"}

ArityMatches(i) ==
  Len(tree.body[i].value.args) = Len(function_cache[tree.body[i].value.func].args)

\* no call of an inlinable function, anywhere in the tree, has an argument
\* count other than the parameter count
AllAritiesMatch ==
  \A c \in 1..Len(Heap0) :
     (Heap0[c].kind = "Call" /\ inlineable_cache[Heap0[c].func]) =>
        Len(Heap0[c].args) = Len(function_cache[Heap0[c].func].args)

\* the callee's cached calls go to functions that are not inlinable
CalleeIsFlat(i) ==
  \A c \in 1..Len(CachedCalls(tree.body[i].value.func)) :
     ~inlineable_cache[CachedCalls(tree.body[i].value.func)[c].func]

\* C2: after inline, every call statement of an inlinable function (however
\* many calls to it were inlined before) holds the callee's cached calls, in
\* order, with parameters replaced by this call site's arguments.
C2_EveryCallSiteInlined ==
  (pc = "inlined" /\ AllAritiesMatch) =>
    \A i \in 1..Len(tree.body) :
       (CallSite(i) /\ ArityMatches(i) /\ CalleeIsFlat(i)) =>
          Mat(heap, heap[1].body[i]).value =
             InlinedValue(tree.body[i].value.func, tree.body[i].value.args)

RECURSIVE Reachable(_, _)
ChildIds(cell) ==
  CASE cell.kind \in {"Module", "FunctionDef"} -> cell.body
    [] cell.kind = "If" -> cell.test.ids \o cell.body \o cell.orelse
    [] cell.kind \in {"Assign", "Expr"} -> cell.value.ids
    [] cell.kind = "Call" -> cell.args
    [] OTHER -> <<>>
Reachable(h, id) ==
  {id} \cup UNION { Reachable(h, ChildIds(h[id])[k]) : k \in 1..Len(ChildIds(h[id])) }

\* the (parent, slot) pairs of the tree under the Module that hold node c
ParentSlots(h, c) ==
  { <<p, k>> \in Reachable(h, 1) \X (1..Len(h)) :
       k <= Len(ChildIds(h[p])) /\ ChildIds(h[p])[k] = c }

\* C8: after inline, the body of every inlinable FunctionDef is as it was
\* before the pass, and no node object is a child of two parents.
C8_InliningCopies ==
  (pc = "inlined" /\ AllAritiesMatch) =>
    /\ \A i \in 1..Len(tree.body) :
          (tree.body[i].kind = "FunctionDef" /\ inlineable_cache[tree.body[i].name]) =>
             Mat(heap, heap[1].body[i]) = tree.body[i]
    /\ \A c \in 1..Len(heap) : Cardinality(ParentSlots(heap, c)) <= 1

\* C9: a call whose argument count differs from the cached parameter count
\* is left as it is, and the pass does not fault on it.
C9_ArityMismatchLeftAlone ==
  /\ pc = "inlined" =>
       \A i \in 1..Len(tree.body) :
          (CallSite(i) /\ ~ArityMatches(i)) =>
             Mat(heap, heap[1].body[i]) = tree.body[i]
  /\ (pc = "inline_failed" /\ fault = "IndexError") =>
       ~\E i \in 1..Len(tree.body) : CallSite(i) /\ ~ArityMatches(i)

----------------------------------------------------------------------------
(* UnusedVariables (visit_nodes.py).  variable_def maps each open scope to  *)
(* its declarations, each a tuple <<name, scope, line>>; variable_used maps *)
(* each open scope to the set of names marked used in it.                   *)

UsedBeforeDefined(name, scope) ==
  [kind |-> "UsedBeforeDefined", name |-> name, scope |-> scope, line |-> 0]
Unused(name, scope, line) ==
  [kind |-> "Unused", name |-> name, scope |-> scope, line |-> line]

DeclaredNames(entries) == { entries[i][1] : i \in 1..Len(entries) }

var_defined(defs, scope, var_name, function) ==
  var_name \in DeclaredNames(defs[function][scope])

register_variable(defs, fname, scope, var_name, line) ==
  IF var_name \in DeclaredNames(defs[fname][scope])
    THEN defs
    ELSE [defs EXCEPT ![fname][scope] = Append(@, <<var_name, fname, line>>)]

RECURSIVE register_variables(_, _, _, _, _)
register_variables(defs, fname, scope, names, line) ==
  IF names = <<>> THEN defs
  ELSE register_variables(register_variable(defs, fname, scope, Head(names), line),
                          fname, scope, Tail(names), line)

\* us = [used, out]: variable_used and stdout while a node is visited
MarkUsed(us, function, var_name) ==
  [us EXCEPT !.used[function] = @ \cup {var_name}]

\* the loop over reversed(self.stack), at frame i; a frame returns only when
\* it marks a name that was not marked yet, and the loop falls through to
\* the write otherwise
RECURSIVE usage_walk(_, _, _, _, _, _)
usage_walk(defs, stk, fname, us, var_name, i) ==
  IF i = 0
    THEN [us EXCEPT !.out = Append(@, UsedBeforeDefined(var_name, fname))]
  ELSE IF var_defined(defs, "global", var_name, stk[i])
          /\ var_name \notin us.used["global"]
    THEN MarkUsed(us, "global", var_name)
  ELSE IF var_defined(defs, "nonlocal", var_name, stk[i])
    THEN usage_walk(defs, stk, fname, us, var_name, i - 1)
  ELSE IF var_defined(defs, "local", var_name, stk[i])
          /\ var_name \notin us.used[stk[i]]
    THEN MarkUsed(us, stk[i], var_name)
  ELSE usage_walk(defs, stk, fname, us, var_name, i - 1)

register_usage(defs, stk, fname, us, var_name) ==
  IF var_defined(defs, "global", var_name, fname)
     /\ var_name \notin us.used["global"]
    THEN MarkUsed(us, "global", var_name)
    ELSE usage_walk(defs, stk, fname, us, var_name, Len(stk))

RECURSIVE register_usages(_, _, _, _, _)
register_usages(defs, stk, fname, us, names) ==
  IF names = <<>> THEN us
  ELSE register_usages(defs, stk, fname,
                       register_usage(defs, stk, fname, us, Head(names)),
                       Tail(names))

\* the names handed to register_usage, in order, when visit(node) runs on an
\* expression: visit_Name takes the name, visit_Call only the arguments that
\* are names, any other expression is walked by generic_visit
RECURSIVE visit_names(_), visit_names_list(_)
visit_Call_names(node) ==
  LET named == SelectSeq(node.args, LAMBDA arg : arg.kind = "Name")
  IN  [i \in 1..Len(named) |-> named[i].id]
visit_names_list(nodes) ==
  IF nodes = <<>> THEN <<>>
  ELSE visit_names(Head(nodes)) \o visit_names_list(Tail(nodes))
visit_names(node) ==
  CASE node.kind = "Name" -> <<node.id>>
    [] node.kind = "Call" -> visit_Call_names(node)
    [] node.kind = "BinOp" -> visit_names(node.left) \o visit_names(node.right)
    [] OTHER -> <<>>

\* the same for generic_visit(node), which visits only the children of node:
\* a Name has none, a Call has its callee name and its arguments
generic_visit_names(node) ==
  CASE node.kind = "Call" -> <<node.func>> \o visit_names_list(node.args)
    [] node.kind = "BinOp" -> visit_names(node.left) \o visit_names(node.right)
    [] OTHER -> <<>>

\* the writes of the loop over a closing scope's locals
unused_report(defs, used, name) ==
  LET unused == SelectSeq(defs[name].local, LAMBDA var : var[1] \notin used[name])
  IN  [i \in 1..Len(unused) |-> Unused(unused[i][1], name, unused[i][3])]

Without(dict, key) == [k \in DOMAIN dict \ {key} |-> dict[k]]

----------------------------------------------------------------------------
(* Observations of the walk.  They record what the analyzer was asked and   *)
(* what it answered; the analyzer never reads them.                         *)

\* the names an expression refers to as variables
RECURSIVE ReferencedNames(_)
ReferencedNames(node) ==
  CASE node.kind = "Name" -> {node.id}
    [] node.kind = "Call" ->
         UNION { ReferencedNames(node.args[i]) : i \in 1..Len(node.args) }
    [] node.kind = "BinOp" ->
         ReferencedNames(node.left) \cup ReferencedNames(node.right)
    [] OTHER -> {}

\* some open scope declares the name global
IsDeclaredGlobal(defs, stk, var_name) ==
  \E i \in 1..Len(stk) : var_defined(defs, "global", var_name, stk[i])

\* the frames that hold the name as a local; a frame that declares the name
\* nonlocal is skipped
HoldingFrames(defs, stk, var_name) ==
  { i \in 1..Len(stk) :
      /\ var_defined(defs, "local", var_name, stk[i])
      /\ ~var_defined(defs, "nonlocal", var_name, stk[i]) }

\* the frame a reference resolves to: the global scope for a name declared
\* global, else the innermost frame holding the name, 0 when there is none
ResolvesTo(defs, stk, var_name) ==
  IF IsDeclaredGlobal(defs, stk, var_name) THEN 1
  ELSE IF HoldingFrames(defs, stk, var_name) = {} THEN 0
  ELSE CHOOSE i \in HoldingFrames(defs, stk, var_name) :
         \A j \in HoldingFrames(defs, stk, var_name) : j <= i

Touch(names) ==
  [i \in 1..Len(stack) |->
     touched[i] \cup { n \in names : ResolvesTo(variable_def, stack, n) = i }]

UsageState == [used |-> variable_used, out |-> stdout]

\* what each register_usage call of a node wrote
RefLog(defs, names) ==
  [i \in 1..Len(names) |->
     [name |-> names[i],
      out |-> SubSeq(register_usages(defs, stack, function_name, UsageState,
                                     SubSeq(names, 1, i)).out,
                     Len(register_usages(defs, stack, function_name, UsageState,
                                         SubSeq(names, 1, i - 1)).out) + 1,
                     Len(register_usages(defs, stack, function_name, UsageState,
                                         SubSeq(names, 1, i)).out))]]

----------------------------------------------------------------------------
(* The programs walked.  generic_visit reaches the statements of a scope in *)
(* order and brackets the statements of a nested function between the two   *)
(* halves of visit_FunctionDef, so a walk is a well-nested run of the       *)
(* actions below.  A function is never given the name of a scope that is    *)
(* still open, and no assignment reads its own target.                      *)

MaxLine == 4
MaxDepth == 2

VarNames == {"x", "y"}
UsageFuncs == {"f", "g"}
ParamLists == {<<>>, <<"x">>, <<"x", "y">>}
DeclLists == {<<"x">>, <<"x", "y">>}
UsageExprs ==
  { Constant("1"),
    Name("x"),
    Call("print", <<Name("x")>>),
    Call("print", <<Name("x"), Name("x")>>),
    Call("print", <<Constant("1"), Name("y")>>),
    BinOp(Name("x"), Constant("1")) }

InitUsage ==
  /\ pc = "visiting"
  /\ tree = Module(<<>>)
  /\ result = Module(<<>>)
  /\ InlineIdle
  /\ UsageIdle

\* a statement: the declarations it leaves, then its register_usage calls
VisitStatement(defs, names, node) ==
  /\ variable_def' = defs
  /\ variable_used' =
       register_usages(defs, stack, function_name, UsageState, names).used
  /\ stdout' = register_usages(defs, stack, function_name, UsageState, names).out
  /\ lineno' = lineno + 1
  /\ last' = node
  /\ refs' = RefLog(defs, names)
  /\ touched' = Touch(ReferencedNames(node.value))
  /\ UNCHANGED <<stack, function_name>>
  /\ UNCHANGED <<pc, tree, result>>
  /\ UNCHANGED inlineVars

\* visit_FunctionDef up to its generic_visit
EnterFunctionDef ==
  /\ pc = "visiting"
  /\ lineno < MaxLine
  /\ Len(stack) <= MaxDepth
  /\ \E name \in UsageFuncs \ { stack[i] : i \in 1..Len(stack) },
        params \in ParamLists :
       /\ function_name' = name
       /\ stack' = Append(stack, name)
       /\ variable_used' = (name :> {}) @@ variable_used
       /\ variable_def' =
            (name :> [ScopeDefs EXCEPT !.local =
                        [i \in 1..Len(params) |-> <<params[i], name, lineno + 1>>]])
            @@ variable_def
       /\ last' = [NoNode EXCEPT !.kind = "FunctionDef", !.name = name]
  /\ lineno' = lineno + 1
  /\ refs' = <<>>
  /\ touched' = Append(touched, {})
  /\ UNCHANGED stdout
  /\ UNCHANGED <<pc, tree, result>>
  /\ UNCHANGED inlineVars

\* visit_FunctionDef after its generic_visit
LeaveFunctionDef ==
  /\ pc = "visiting"
  /\ Len(stack) > 1
  /\ stdout' = stdout \o unused_report(variable_def, variable_used, stack[Len(stack)])
  /\ variable_used' = Without(variable_used, stack[Len(stack)])
  /\ variable_def' = Without(variable_def, stack[Len(stack)])
  /\ stack' = SubSeq(stack, 1, Len(stack) - 1)
  /\ function_name' = stack[Len(stack) - 1]
  /\ last' = [NoNode EXCEPT !.kind = "exit", !.name = stack[Len(stack)],
                            !.locals = variable_def[stack[Len(stack)]].local,
                            !.seen = touched[Len(stack)],
                            !.out = unused_report(variable_def, variable_used,
                                                  stack[Len(stack)])]
  /\ refs' = <<>>
  /\ touched' = SubSeq(touched, 1, Len(stack) - 1)
  /\ UNCHANGED lineno
  /\ UNCHANGED <<pc, tree, result>>
  /\ UNCHANGED inlineVars

visit_Nonlocal ==
  /\ pc = "visiting"
  /\ lineno < MaxLine
  /\ Len(stack) > 2
  /\ \E names \in DeclLists :
       VisitStatement(
         register_variables(variable_def, function_name, "nonlocal", names, lineno + 1),
         <<>>, [NoNode EXCEPT !.kind = "Nonlocal"])

visit_Global ==
  /\ pc = "visiting"
  /\ lineno < MaxLine
  /\ Len(stack) > 1
  /\ \E names \in DeclLists :
       VisitStatement(
         register_variables(variable_def, function_name, "global", names, lineno + 1),
         <<>>, [NoNode EXCEPT !.kind = "Global"])

visit_Assign ==
  /\ pc = "visiting"
  /\ lineno < MaxLine
  /\ \E target \in VarNames, value \in UsageExprs :
       /\ target \notin ReferencedNames(value)
       /\ VisitStatement(
            register_variable(variable_def, function_name, "local", target, lineno + 1),
            generic_visit_names(value),
            [NoNode EXCEPT !.kind = "Assign", !.target = target, !.value = value])

\* an expression statement: generic_visit of the statement visits its value
visit_Expr ==
  /\ pc = "visiting"
  /\ lineno < MaxLine
  /\ \E value \in UsageExprs :
       VisitStatement(variable_def, visit_names(value),
                      [NoNode EXCEPT !.kind = "Expr", !.value = value])

\* check, after its generic_visit of the module
check ==
  /\ pc = "visiting"
  /\ Len(stack) = 1
  /\ pc' = "done"
  /\ stdout' = stdout \o unused_report(variable_def, variable_used, "global")
  /\ last' = [NoNode EXCEPT !.kind = "exit", !.name = "global",
                            !.locals = variable_def["global"].local,
                            !.seen = touched[1],
                            !.out = unused_report(variable_def, variable_used,
                                                  "global")]
  /\ refs' = <<>>
  /\ UNCHANGED <<variable_def, variable_used, stack, function_name, lineno, touched>>
  /\ UNCHANGED <<tree, result>>
  /\ UNCHANGED inlineVars

NextUsage ==
  \/ EnterFunctionDef
  \/ LeaveFunctionDef
  \/ visit_Nonlocal
  \/ visit_Global
  \/ visit_Assign
  \/ visit_Expr
  \/ check
SpecUsage == InitUsage /\ [][NextUsage]_vars

----------------------------------------------------------------------------
(* Claims about the usage analyzer                                         *)

GlobalNow(var_name) == IsDeclaredGlobal(variable_def, stack, var_name)
FrameNow(var_name) == ResolvesTo(variable_def, stack, var_name)

\* C5: each register_usage call writes exactly one UsedBeforeDefined
\* diagnostic, naming the innermost scope, if and only if the name is not
\* declared global and no frame of the walk holds it as a local; a call that
\* finds a holding frame leaves the name marked used there and writes
\* nothing, whether it is the first reference to the name or a later one.
C5_DiagnosticIffUnresolved ==
  \A i \in 1..Len(refs) :
     IF ~GlobalNow(refs[i].name) /\ FrameNow(refs[i].name) = 0
       THEN refs[i].out = <<UsedBeforeDefined(refs[i].name, function_name)>>
       ELSE /\ refs[i].out = <<>>
            /\ ~GlobalNow(refs[i].name) =>
                 refs[i].name \in variable_used[stack[FrameNow(refs[i].name)]]

\* the Unused diagnostics due when a scope closes: one for each local that
\* no reference resolved to, in order of definition
RECURSIVE DueUnused(_, _, _)
DueUnused(locals, seen, scope) ==
  IF locals = <<>> THEN <<>>
  ELSE (IF Head(locals)[1] \in seen
          THEN <<>>
          ELSE <<Unused(Head(locals)[1], scope, Head(locals)[3])>>)
       \o DueUnused(Tail(locals), seen, scope)

\* C6: when a function's scope or the module closes, the Unused diagnostics
\* written are exactly those of the locals (parameters, assignment targets)
\* that no reference resolved to that scope, each with the scope's name and
\* the line of its first definition.
C6_UnusedExactlyUnreferenced ==
  last.kind = "exit" => last.out = DueUnused(last.locals, last.seen, last.name)

\* the nearest enclosing function frame holding the name as a local, 0 when
\* there is none
EnclosingFrame(var_name) ==
  IF HoldingFrames(variable_def, stack, var_name) \cap (2..(Len(stack) - 1)) = {}
    THEN 0
    ELSE CHOOSE i \in HoldingFrames(variable_def, stack, var_name) \cap (2..(Len(stack) - 1)) :
           \A j \in HoldingFrames(variable_def, stack, var_name) \cap (2..(Len(stack) - 1)) :
              j <= i

\* the reference is made in a nested function that declares the name
\* nonlocal, and an enclosing function holds the name as a local
NonlocalReference(i) ==
  /\ Len(stack) > 2
  /\ var_defined(variable_def, "nonlocal", refs[i].name, function_name)
  /\ ~var_defined(variable_def, "local", refs[i].name, function_name)
  /\ ~GlobalNow(refs[i].name)
  /\ EnclosingFrame(refs[i].name) # 0

\* C7: a reference, in a nested function, to a name the function declares
\* nonlocal resolves to the nearest enclosing frame holding the name as a
\* local: the name is marked used in that frame and not in the nested
\* function's, and the reference writes no diagnostic.
C7_NonlocalResolvesOutward ==
  \A i \in 1..Len(refs) :
     NonlocalReference(i) =>
       /\ refs[i].out = <<>>
       /\ refs[i].name \in variable_used[stack[EnclosingFrame(refs[i].name)]]
       /\ refs[i].name \notin variable_used[function_name]

\* the line recorded for a local of the current scope
LocalLine(var_name) ==
  LET entries == variable_def[function_name].local
  IN  entries[CHOOSE i \in 1..Len(entries) : entries[i][1] = var_name][3]

\* C10: an assignment registers its target as a local of the current scope
\* without marking it used, and every name its value refers to is resolved
\* as a use, a value that is a bare name included: after  x = 1; y = x  the
\* local x is marked used.
C10_AssignValueIsUse ==
  last.kind = "Assign" =>
    /\ var_defined(variable_def, "local", last.target, function_name)
    /\ (LocalLine(last.target) = lineno /\ last.target \notin ReferencedNames(last.value))
         => last.target \notin variable_used[function_name]
    /\ \A n \in ReferencedNames(last.value) :
         (~GlobalNow(n) /\ FrameNow(n) # 0) => n \in variable_used[stack[FrameNow(n)]]

====
